---- MODULE Spec2Model ----
(***************************************************************************)
(* The portfolio backend (src/backend/server.js): the request              *)
(* instrumentation middlewares, the JSON-file-backed portfolio document    *)
(* and the handlers that read and mutate it.                               *)
(*                                                                         *)
(* A JSON number that JavaScript can hold is modelled as a tagged value:   *)
(* Num(n), NegInf (the JavaScript -Infinity) or Null.                      *)
(***************************************************************************)
EXTENDS Integers, Sequences, FiniteSets, Bags, TLC

\* ------------------------------------------------------------------ bounds
MaxReqs == 2
MaxStarts == 2
MaxFaults == 1
MaxNow == 3

ReqIds == 1 .. MaxReqs

\* ------------------------------------------------------------ JSON values
Num(n) == [k |-> "num", v |-> n]
NegInf == [k |-> "neginf", v |-> 0]
Null == [k |-> "null", v |-> 0]

\* Number(x) as Math.max applies it to each argument: null becomes 0.
ToNumber(x) == IF x.k = "null" THEN Num(0) ELSE x

\* x < y on JavaScript numbers (no NaN arises from the ids modelled here).
NumLess(x, y) ==
  IF y.k = "neginf" THEN FALSE
  ELSE IF x.k = "neginf" THEN TRUE
  ELSE x.v < y.v

NumMax2(x, y) == IF NumLess(x, y) THEN y ELSE x

\* Math.max(...xs): -Infinity for no arguments.
RECURSIVE MathMax(_)
MathMax(xs) ==
  IF xs = << >> THEN NegInf
  ELSE NumMax2(ToNumber(Head(xs)), MathMax(Tail(xs)))

\* x + 1 on JavaScript numbers: -Infinity + 1 is -Infinity.
PlusOne(x) == IF x.k = "neginf" THEN NegInf ELSE Num(x.v + 1)

\* JSON.stringify of a number, read back by JSON.parse: a non-finite number
\* is written as null.
JsonNumber(x) == IF x.k = "neginf" THEN Null ELSE x

SeqMap(Op(_), s) == [i \in 1 .. Len(s) |-> Op(s[i])]

\* ---------------------------------------------------------------- records
\* The technologies field of a request body: absent (undefined) or a list.
NoTech == [def |-> FALSE, val |-> << >>]
Tech(l) == [def |-> TRUE, val |-> l]

Project(id, title, tech, featured, at) ==
  [id |-> id, title |-> title, technologies |-> tech, featured |-> featured,
   created_at |-> at]

Skill(id, name, category, proficiency) ==
  [id |-> id, name |-> name, category |-> category, proficiency |-> proficiency]

\* metadata: has (the object exists), initialized_at, version and last_updated
\* (-1 and "" stand for an absent field).
NoMeta == [has |-> FALSE, initialized_at |-> -1, version |-> "", last_updated |-> -1]

\* The value JSON.parse gives for a file that holds a document object.
DocValue == [k |-> "doc", v |-> 0]

\* json: DocValue for a document object, and otherwise the JSON value that
\* stands where a document is expected.
Doc(projects, skills, metadata) ==
  [projects |-> projects, skills |-> skills, metadata |-> metadata, json |-> DocValue]

NoDoc == Doc(<< >>, << >>, NoMeta)

\* A JSON value that is no document (null, a number), held as portfolioData.
NotDoc(v) == [NoDoc EXCEPT !.json = v]

\* portfolioData.projects and portfolioData.skills can be read.
IsDoc(d) == d.json = DocValue

JsonProject(p) == [p EXCEPT !.id = JsonNumber(@)]

\* JSON.parse(JSON.stringify(data, null, 2)): what a written document reads
\* back as.
JsonDoc(d) == [d EXCEPT !.projects = SeqMap(JsonProject, @)]

\* The content of a file of DATA_DIR: absent, unparseable text, a JSON
\* document, or the JSON text of a value that is no document.
FileAbsent == [kind |-> "absent", doc |-> NoDoc, val |-> Null]
FileCorrupt == [kind |-> "corrupt", doc |-> NoDoc, val |-> Null]
FileOf(d) == [kind |-> "doc", doc |-> JsonDoc(d), val |-> Null]
FileOfValue(v) == [kind |-> "json", doc |-> NoDoc, val |-> v]

DefaultSkills ==
  << Skill(1, "Kubernetes", "devops", 8),
     Skill(2, "Docker", "devops", 9),
     Skill(3, "Node.js", "backend", 8),
     Skill(4, "React", "frontend", 7),
     Skill(5, "PostgreSQL", "database", 7) >>

\* defaultData of loadPortfolioData, built at time t (before save stamps it).
DefaultData(t) ==
  Doc(<< Project(Num(1), "Kubernetes Portfolio",
                 << "Kubernetes", "Docker", "Node.js", "PostgreSQL" >>, TRUE, t),
         Project(Num(2), "Microservices E-commerce",
                 << "Node.js", "React", "MongoDB", "Redis", "Docker" >>, FALSE, t) >>,
      DefaultSkills,
      [has |-> TRUE, initialized_at |-> t, version |-> "1.0.0", last_updated |-> -1])

\* ------------------------------------------------------------------ state
VARIABLES
  dataFile,            \* content of DATA_FILE (/app/data/portfolio-data.json)
  dataDir,             \* dataDir[k]: content of the other file /app/data/<k>.json
  logLines,            \* the lines appended under LOGS_DIR, oldest first
  now,                 \* the clock read by new Date()
  up,                  \* up[p]: process p is running
  starts,              \* starts[p]: how many times p has been started
  portfolioData,       \* portfolioData[p]: the in-memory document of p
  activeConnections,   \* the http_active_connections gauge of p
  httpRequestsTotal,   \* http_requests_total of p: label triple -> count
  httpRequestDuration, \* http_request_duration_seconds of p: triple -> observations
  reqs,                \* reqs[r]: request r, its process and its response
  faults               \* handler runs in which the file system has failed so far

vars == << dataFile, dataDir, logLines, now, up, starts, portfolioData, activeConnections,
           httpRequestsTotal, httpRequestDuration, reqs, faults >>

Procs == DOMAIN up

\* ------------------------------------------------- the file system's answers
\* What fs.writeFileSync(DATA_FILE, ...) does: "ok" writes the whole text;
\* "fail" throws leaving the file as it was; "trunc" throws after the file
\* was opened for writing, leaving truncated text.
WriteOutcomes == {"ok", "fail", "trunc"}

\* The logToFile calls one handler or one load can make, at most.
MaxLogCalls == 5

\* An environment of one handler run: the outcome of its document write and,
\* for its k-th logToFile call, whether fs.appendFileSync throws.
Envs == [w : WriteOutcomes, lf : [1 .. MaxLogCalls -> BOOLEAN]]
NoFaults == [w |-> "ok", lf |-> [i \in 1 .. MaxLogCalls |-> FALSE]]

\* The file system fails in at most MaxFaults handler runs of a behaviour:
\* the environments among E a handler can run under now, and the count.
EnvsNow(E) == IF faults < MaxFaults THEN E ELSE E \cap {NoFaults}

Faulty(env) == faults' = IF env = NoFaults THEN faults ELSE faults + 1

\* The running state of one handler: the files, the document it works on,
\* whether an exception is in flight, and the logToFile calls made so far.
Ctx(data, env) ==
  [file |-> dataFile, logs |-> logLines, data |-> data, exc |-> FALSE, k |-> 0,
   env |-> env]

\* The clock ticks that make one UTC day: toISOString().split('T')[0] of two
\* times is the same text exactly when they fall in the same day.
DayLength == 2
Day(t) == t \div DayLength

LogEntry(level, message) == [timestamp |-> now, level |-> level, message |-> message]

\* The lines of the file app-<day>.log, in file order: each line went to the
\* file named by the date of the clock when it was appended.
LogFile(lines, day) == SelectSeq(lines, LAMBDA e : Day(e.timestamp) = day)

\* fs.readdirSync(LOGS_DIR): the days that have a log file.
LogDays(lines) == {Day(lines[i].timestamp) : i \in 1 .. Len(lines)}

\* A logToFile that writes the day's file anew with the one line.
logToFileOverwrite(c, level, message) ==
  IF c.env.lf[c.k + 1]
  THEN [c EXCEPT !.k = @ + 1, !.exc = TRUE]
  ELSE [c EXCEPT !.k = @ + 1,
                 !.logs = Append(SelectSeq(@, LAMBDA e : Day(e.timestamp) # Day(now)),
                                 LogEntry(level, message))]

logToFile(c, level, message) ==
  IF c.env.lf[c.k + 1]
  THEN [c EXCEPT !.k = @ + 1, !.exc = TRUE]
  ELSE [c EXCEPT !.k = @ + 1, !.logs = Append(@, LogEntry(level, message))]

\* A write call that was left out.
writeFileSyncMissing(c, d) == c

\* A write that adds the last project of d to the document already on disk
\* instead of replacing the file.
writeFileSyncMerge(c, d) ==
  IF c.file.kind = "doc" /\ d.projects # << >>
  THEN [c EXCEPT !.file = FileOf([d EXCEPT !.projects =
                     Append(c.file.doc.projects, d.projects[Len(d.projects)])])]
  ELSE [c EXCEPT !.file = FileOf(d)]

writeFileSync(c, d) ==
  CASE c.env.w = "ok" -> [c EXCEPT !.file = FileOf(d)]
    [] c.env.w = "fail" -> [c EXCEPT !.exc = TRUE]
    [] c.env.w = "trunc" -> [c EXCEPT !.file = FileCorrupt, !.exc = TRUE]

\* savePortfolioData(data) on c.data; the stamp stays on the object whether or
\* not the write succeeds. Only a throwing logToFile in the catch escapes.
savePortfolioData(c) ==
  LET stamped == [c.data EXCEPT !.metadata = [@ EXCEPT !.has = TRUE,
                                                       !.last_updated = now]]
      c1 == writeFileSync([c EXCEPT !.data = stamped], stamped)
      c2 == IF c1.exc THEN c1
            ELSE logToFile(c1, "info", "Portfolio data saved to persistent storage")
  IN  IF c2.exc
      THEN logToFile([c2 EXCEPT !.exc = FALSE], "error",
                     "Failed to save portfolio data to storage")
      ELSE c2

\* A load that answers an absent or unparseable file with the default
\* document but does not persist it.
loadWithoutPersist(c) ==
  IF c.file.kind = "doc"
  THEN [logToFile(c, "info", "Portfolio data loaded from persistent storage")
          EXCEPT !.data = c.file.doc]
  ELSE [c EXCEPT !.data = DefaultData(now)]

\* A load that hands out the projects it read newest first.
loadNewestFirst(c) ==
  LET ps == c.file.doc.projects
      rev == [i \in 1 .. Len(ps) |-> ps[Len(ps) + 1 - i]]
  IN  IF c.file.kind = "doc"
      THEN [logToFile(c, "info", "Portfolio data loaded from persistent storage")
              EXCEPT !.data = [c.file.doc EXCEPT !.projects = rev]]
      ELSE logToFile(savePortfolioData([c EXCEPT !.data = DefaultData(now)]),
                     "info", "Default portfolio data initialized")

\* loadPortfolioData(): c.data is the returned document; c.exc tells that the
\* call threw instead.
loadPortfolioData(c) ==
  LET t1 == IF c.file.kind = "absent" THEN c
            ELSE logToFile(c, "info", "Portfolio data loaded from persistent storage")
      parsed == c.file.kind \in {"doc", "json"} /\ ~t1.exc
      t2 == IF c.file.kind = "absent" THEN c
            ELSE logToFile([t1 EXCEPT !.exc = FALSE], "error",
                           "Failed to load portfolio data from storage")
      s1 == savePortfolioData([t2 EXCEPT !.data = DefaultData(now)])
      s2 == IF s1.exc THEN s1
            ELSE logToFile(s1, "info", "Default portfolio data initialized")
  IN  IF parsed
      THEN [t1 EXCEPT !.data = IF c.file.kind = "doc" THEN c.file.doc
                               ELSE NotDoc(c.file.val)]
      ELSE IF t2.exc THEN t2
      ELSE s2

\* --------------------------------------------------------------- requests
\* A response body: "none", "", -1 stand for a field the body does not have.
NoBody == [success |-> "none", error |-> "", data |-> << >>, count |-> -1,
           total |-> EmptyBag, active |-> -1, status |-> "", service |-> "",
           value |-> Null, total_lines |-> -1, log_file |-> -1]

\* The JSON body a request carries: title and technologies for POST
\* /api/projects, key and value for POST /api/data/save.
NoInput == [title |-> "", technologies |-> [def |-> FALSE, val |-> << >>],
            key |-> "", value |-> Null]

\* trace: the instrumentation steps that ran for the request, in order.
IdleReq ==
  [st |-> "idle", proc |-> 0, life |-> 0, method |-> "", path |-> "",
   input |-> NoInput, route |-> "", status |-> 0, body |-> NoBody,
   trace |-> << >>]

\* The keys of DATA_DIR files other than DATA_FILE that clients name.
DataFileKey == "portfolio-data"
OtherKeys == {"notes", "ghost"}

\* ------------------------------------------------------------------- Init
\* Documents a data volume can hold at first start.
InitProjects ==
  { << >>,
    << Project(Num(1), "Blog", << >>, FALSE, 0),
       Project(Num(5), "Shop", << "Go" >>, FALSE, 0),
       Project(Num(2), "Site", << "HTML" >>, TRUE, 0) >> }

InitFiles ==
  {FileAbsent, FileCorrupt} \cup
  { FileOf(Doc(ps, << Skill(1, "Kubernetes", "devops", 8) >>,
               [has |-> TRUE, initialized_at |-> 0, version |-> "1.0.0",
                last_updated |-> 0])) : ps \in InitProjects }

InitWith(P) ==
  /\ dataFile \in InitFiles
  /\ dataDir = [k \in OtherKeys |-> FileAbsent]
  /\ logLines = << >>
  /\ now = 0
  /\ up = [p \in P |-> FALSE]
  /\ starts = [p \in P |-> 0]
  /\ portfolioData = [p \in P |-> NoDoc]
  /\ activeConnections = [p \in P |-> 0]
  /\ httpRequestsTotal = [p \in P |-> EmptyBag]
  /\ httpRequestDuration = [p \in P |-> EmptyBag]
  /\ reqs = [r \in ReqIds |-> IdleReq]
  /\ faults = 0

Init == InitWith({1})

\* ----------------------------------------------------------- process life
\* node server.js: the registry is created empty and portfolioData is
\* loaded; a throwing load ends the process before it listens. The clock is
\* read at the granularity of process starts: load reads it, and whatever
\* follows the start reads a later time.
Start(p, env) ==
  /\ ~up[p]
  /\ starts[p] < MaxStarts
  /\ Faulty(env)
  /\ now' = now + 1
  /\ LET c == loadPortfolioData(Ctx(NoDoc, env))
     IN  /\ dataFile' = c.file
         /\ logLines' = c.logs
         /\ up' = [up EXCEPT ![p] = ~c.exc]
         /\ portfolioData' = [portfolioData EXCEPT ![p] = IF c.exc THEN NoDoc ELSE c.data]
  /\ starts' = [starts EXCEPT ![p] = @ + 1]
  /\ activeConnections' = [activeConnections EXCEPT ![p] = 0]
  /\ httpRequestsTotal' = [httpRequestsTotal EXCEPT ![p] = EmptyBag]
  /\ httpRequestDuration' = [httpRequestDuration EXCEPT ![p] = EmptyBag]
  /\ UNCHANGED << dataDir, reqs >>

InFlight(r, p) ==
  /\ reqs[r].proc = p
  /\ reqs[r].life = starts[p]
  /\ reqs[r].st \in {"pending", "responded"}

\* SIGTERM / SIGINT: server.close() lets the open requests end, then exit.
Stop(p) ==
  /\ up[p]
  /\ \A r \in ReqIds : ~InFlight(r, p)
  /\ up' = [up EXCEPT ![p] = FALSE]
  /\ portfolioData' = [portfolioData EXCEPT ![p] = NoDoc]
  /\ UNCHANGED << dataFile, dataDir, logLines, now, starts, activeConnections,
                  httpRequestsTotal, httpRequestDuration, reqs, faults >>

\* The process is killed: its open connections are reset.
Crash(p) ==
  /\ up[p]
  /\ up' = [up EXCEPT ![p] = FALSE]
  /\ portfolioData' = [portfolioData EXCEPT ![p] = NoDoc]
  /\ reqs' = [r \in ReqIds |->
                IF InFlight(r, p) THEN [reqs[r] EXCEPT !.st = "aborted"] ELSE reqs[r]]
  /\ UNCHANGED << dataFile, dataDir, logLines, now, starts, activeConnections,
                  httpRequestsTotal, httpRequestDuration, faults >>

\* ------------------------------------------------------ request handlers
\* The request that arrives next: ids are handed out in order.
NextReq(r) ==
  /\ reqs[r].st = "idle"
  /\ \A q \in ReqIds : q < r => reqs[q].st # "idle"

\* Both app.use middlewares of lines 47-74 on arrival: the gauge goes up and
\* the finish listeners are registered; the handler then answers.
\* gauge.inc()
IncGauge(g) == g + 1

\* The trace a request has when its handler returns: inc (line 49), start
\* (line 58), then the handler's response unless it awaits.
ArriveTrace(st) ==
  IF st = "responded" THEN << "inc", "start", "handler" >> ELSE << "inc", "start" >>

Arrive(r, p, method, path, input, route, st, status, body) ==
  /\ activeConnections' = [activeConnections EXCEPT ![p] = IncGauge(@)]
  /\ reqs' = [reqs EXCEPT ![r] =
                [st |-> st, proc |-> p, life |-> starts[p], method |-> method,
                 path |-> path, input |-> input, route |-> route,
                 status |-> status, body |-> body, trace |-> ArriveTrace(st)]]

\* res.json(x): the body is JSON text, so a non-finite id reads as null.
JsonProjects(ps) == SeqMap(JsonProject, ps)

\* The body of the catch blocks when reading portfolioData.projects or
\* portfolioData.skills throws a TypeError.
TypeErrorBody == [NoBody EXCEPT !.success = "false", !.error = "Cannot read properties"]

\* GET /api/projects
GetProjects(r, p) ==
  /\ up[p] /\ NextReq(r)
  /\ IF IsDoc(portfolioData[p])
     THEN Arrive(r, p, "GET", "/api/projects", NoInput, "/api/projects", "responded", 200,
                 [NoBody EXCEPT !.success = "true",
                                !.data = JsonProjects(portfolioData[p].projects),
                                !.count = Len(portfolioData[p].projects)])
     ELSE Arrive(r, p, "GET", "/api/projects", NoInput, "/api/projects", "responded", 500,
                 TypeErrorBody)
  /\ UNCHANGED << dataFile, dataDir, logLines, now, up, starts, portfolioData,
                  httpRequestsTotal, httpRequestDuration, faults >>

\* parseInt of the :id parameters the model sends.
NaN == [k |-> "nan", v |-> 0]
Params == {"1", "6", "1abc"}
ParseInt(s) ==
  CASE s = "1" -> Num(1)
    [] s = "6" -> Num(6)
    [] s = "1abc" -> Num(1)
    [] OTHER -> NaN

\* projects.find(p => p.id === parseInt(param)): the first match, as a list
\* of at most one project.
RECURSIVE Find(_, _)
Find(ps, n) ==
  IF ps = << >> THEN << >>
  ELSE IF n.k = "num" /\ Head(ps).id = n THEN << Head(ps) >>
  ELSE Find(Tail(ps), n)

\* GET /api/projects/:id
GetProject(r, p, param) ==
  /\ up[p] /\ NextReq(r)
  /\ LET found == Find(portfolioData[p].projects, ParseInt(param))
     IN  IF ~IsDoc(portfolioData[p])
         THEN Arrive(r, p, "GET", "/api/projects/" \o param, NoInput,
                     "/api/projects/:id", "responded", 500, TypeErrorBody)
         ELSE IF found = << >>
         THEN Arrive(r, p, "GET", "/api/projects/" \o param, NoInput,
                     "/api/projects/:id", "responded", 404,
                     [NoBody EXCEPT !.success = "false", !.error = "Project not found"])
         ELSE Arrive(r, p, "GET", "/api/projects/" \o param, NoInput,
                     "/api/projects/:id", "responded", 200,
                     [NoBody EXCEPT !.success = "true", !.data = JsonProjects(found)])
  /\ UNCHANGED << dataFile, dataDir, logLines, now, up, starts, portfolioData,
                  httpRequestsTotal, httpRequestDuration, faults >>

\* The request bodies POST /api/projects receives.
Bodies ==
  { [title |-> "Wiki", technologies |-> NoTech],
    [title |-> "Game", technologies |-> Tech(<< "Rust" >>)] }

Ids(ps) == [i \in 1 .. Len(ps) |-> ps[i].id]

\* An id taken from the number of projects.
IdFromLength(ps) == Num(Len(ps) + 1)

\* Math.max(...portfolioData.projects.map(p => p.id)) + 1
NewProjectId(ps) == PlusOne(MathMax(Ids(ps)))

\* technologies || []
TechOrEmpty(t) == IF t.def THEN t.val ELSE << >>

NewProject(ps, b) ==
  Project(NewProjectId(ps), b.title, TechOrEmpty(b.technologies), FALSE, now)

\* A handler that takes the new project out of memory again when the
\* document on disk does not hold it after save.
addProjectRollback(d, b, env) ==
  LET new == NewProject(d.projects, b)
      pushed == [d EXCEPT !.projects = Append(@, new)]
      c1 == savePortfolioData(Ctx(pushed, env))
      kept == IF c1.file = FileOf(c1.data) THEN c1 ELSE [c1 EXCEPT !.data = d]
      c2 == IF kept.exc THEN kept ELSE logToFile(kept, "info", "New project added")
      c3 == logToFile([c2 EXCEPT !.exc = FALSE], "error", "Failed to add project")
  IN  IF ~c2.exc
      THEN [c |-> c2, status |-> 201,
            body |-> [NoBody EXCEPT !.success = "true", !.data = JsonProjects(<< new >>)]]
      ELSE [c |-> c3, status |-> 500,
            body |-> [NoBody EXCEPT !.success = "false", !.error = "appendFileSync failed"]]

\* A handler that takes the new project out of memory again whenever it
\* answers 500.
addProjectUndoOnError(d, b, env) ==
  LET new == NewProject(d.projects, b)
      pushed == [d EXCEPT !.projects = Append(@, new)]
      c1 == savePortfolioData(Ctx(pushed, env))
      c2 == IF c1.exc THEN c1 ELSE logToFile(c1, "info", "New project added")
      c3 == logToFile([c2 EXCEPT !.exc = FALSE, !.data = d], "error",
                      "Failed to add project")
      e3 == logToFile(Ctx(d, env), "error", "Failed to add project")
  IN  IF ~IsDoc(d)
      THEN [c |-> e3, status |-> 500,
            body |-> IF e3.exc
                     THEN [NoBody EXCEPT !.success = "false",
                                         !.error = "Internal server error"]
                     ELSE TypeErrorBody]
      ELSE IF ~c2.exc
      THEN [c |-> c2, status |-> 201,
            body |-> [NoBody EXCEPT !.success = "true", !.data = JsonProjects(<< new >>)]]
      ELSE IF ~c3.exc
      THEN [c |-> c3, status |-> 500,
            body |-> [NoBody EXCEPT !.success = "false", !.error = "appendFileSync failed"]]
      ELSE [c |-> c3, status |-> 500,
            body |-> [NoBody EXCEPT !.success = "false", !.error = "Internal server error"]]

\* The handler of POST /api/projects run on document d under env: the final
\* handler state c, and the response.
addProject(d, b, env) ==
  LET new == NewProject(d.projects, b)
      pushed == [d EXCEPT !.projects = Append(@, new)]
      c1 == savePortfolioData(Ctx(pushed, env))
      c2 == IF c1.exc THEN c1 ELSE logToFile(c1, "info", "New project added")
      c3 == logToFile([c2 EXCEPT !.exc = FALSE], "error", "Failed to add project")
      e3 == logToFile(Ctx(d, env), "error", "Failed to add project")
  IN  IF ~IsDoc(d)
      THEN [c |-> e3, status |-> 500,
            body |-> IF e3.exc
                     THEN [NoBody EXCEPT !.success = "false",
                                         !.error = "Internal server error"]
                     ELSE TypeErrorBody]
      ELSE IF ~c2.exc
      THEN [c |-> c2, status |-> 201,
            body |-> [NoBody EXCEPT !.success = "true", !.data = JsonProjects(<< new >>)]]
      ELSE IF ~c3.exc
      THEN [c |-> c3, status |-> 500,
            body |-> [NoBody EXCEPT !.success = "false", !.error = "appendFileSync failed"]]
      ELSE [c |-> c3, status |-> 500,
            body |-> [NoBody EXCEPT !.success = "false", !.error = "Internal server error"]]

\* POST /api/projects
PostProjects(r, p, b, env) ==
  /\ up[p] /\ NextReq(r)
  /\ Faulty(env)
  /\ LET h == addProject(portfolioData[p], b, env)
     IN  /\ portfolioData' = [portfolioData EXCEPT ![p] = h.c.data]
         /\ dataFile' = h.c.file
         /\ logLines' = h.c.logs
         /\ Arrive(r, p, "POST", "/api/projects", b, "/api/projects", "responded",
                   h.status, h.body)
  /\ UNCHANGED << dataDir, now, up, starts, httpRequestsTotal, httpRequestDuration >>

\* The process dies inside the writeFileSync of POST /api/projects: the file
\* was opened for writing and holds truncated text.
CrashDuringSave(r, p, b) ==
  /\ up[p] /\ NextReq(r)
  /\ dataFile' = FileCorrupt
  /\ up' = [up EXCEPT ![p] = FALSE]
  /\ portfolioData' = [portfolioData EXCEPT ![p] = NoDoc]
  /\ reqs' = [q \in ReqIds |->
                IF q = r
                THEN [IdleReq EXCEPT !.st = "aborted", !.proc = p, !.life = starts[p],
                                     !.method = "POST", !.path = "/api/projects",
                                     !.input = b, !.trace = << "inc", "start" >>]
                ELSE IF InFlight(q, p) THEN [reqs[q] EXCEPT !.st = "aborted"]
                ELSE reqs[q]]
  /\ activeConnections' = [activeConnections EXCEPT ![p] = IncGauge(@)]
  /\ UNCHANGED << dataDir, logLines, now, starts, httpRequestsTotal,
                  httpRequestDuration, faults >>

\* GET /health
Health(r, p) ==
  /\ up[p] /\ NextReq(r)
  /\ Arrive(r, p, "GET", "/health", NoInput, "/health", "responded", 200,
            [NoBody EXCEPT !.status = "healthy"])
  /\ UNCHANGED << dataFile, dataDir, logLines, now, up, starts, portfolioData,
                  httpRequestsTotal, httpRequestDuration, faults >>

\* GET /ready
Ready(r, p) ==
  /\ up[p] /\ NextReq(r)
  /\ Arrive(r, p, "GET", "/ready", NoInput, "/ready", "responded", 200,
            [NoBody EXCEPT !.status = "ready"])
  /\ UNCHANGED << dataFile, dataDir, logLines, now, up, starts, portfolioData,
                  httpRequestsTotal, httpRequestDuration, faults >>

\* GET /
Root(r, p) ==
  /\ up[p] /\ NextReq(r)
  /\ Arrive(r, p, "GET", "/", NoInput, "/", "responded", 200,
            [NoBody EXCEPT !.service = "K8s Portfolio Backend"])
  /\ UNCHANGED << dataFile, dataDir, logLines, now, up, starts, portfolioData,
                  httpRequestsTotal, httpRequestDuration, faults >>

\* GET /api/skills
GetSkills(r, p) ==
  /\ up[p] /\ NextReq(r)
  /\ IF IsDoc(portfolioData[p])
     THEN Arrive(r, p, "GET", "/api/skills", NoInput, "/api/skills", "responded", 200,
                 [NoBody EXCEPT !.success = "true",
                                !.data = portfolioData[p].skills,
                                !.count = Len(portfolioData[p].skills)])
     ELSE Arrive(r, p, "GET", "/api/skills", NoInput, "/api/skills", "responded", 500,
                 TypeErrorBody)
  /\ UNCHANGED << dataFile, dataDir, logLines, now, up, starts, portfolioData,
                  httpRequestsTotal, httpRequestDuration, faults >>

\* The stats object of GET /api/stats, as far as it shows the document.
Stats(d) ==
  [totalProjects |-> Len(d.projects),
   featuredProjects |-> Len(SelectSeq(d.projects, LAMBDA x : x.featured)),
   totalSkills |-> Len(d.skills),
   categories |-> {d.skills[i].category : i \in 1 .. Len(d.skills)}]

\* GET /api/stats
GetStats(r, p) ==
  /\ up[p] /\ NextReq(r)
  /\ IF IsDoc(portfolioData[p])
     THEN Arrive(r, p, "GET", "/api/stats", NoInput, "/api/stats", "responded", 200,
                 [NoBody EXCEPT !.success = "true", !.data = << Stats(portfolioData[p]) >>])
     ELSE Arrive(r, p, "GET", "/api/stats", NoInput, "/api/stats", "responded", 500,
                 TypeErrorBody)
  /\ UNCHANGED << dataFile, dataDir, logLines, now, up, starts, portfolioData,
                  httpRequestsTotal, httpRequestDuration, faults >>

\* The keys and the JSON values clients send to POST /api/data/save, and the
\* keys they ask GET /api/data/:key for.
SaveKeys == {DataFileKey, "notes"}
GetKeys == {DataFileKey, "notes", "ghost"}
KvValues == {Num(7), Null}

\* path.join(DATA_DIR, `${key}.json`): the file a key names, as it is now.
FileAt(key) == IF key = DataFileKey THEN dataFile ELSE dataDir[key]

\* POST /api/data/save with body {key, value}
SaveData(r, p, key, value) ==
  /\ up[p] /\ NextReq(r)
  /\ IF key = DataFileKey
     THEN dataFile' = FileOfValue(value) /\ UNCHANGED dataDir
     ELSE dataDir' = [dataDir EXCEPT ![key] = FileOfValue(value)] /\ UNCHANGED dataFile
  /\ Arrive(r, p, "POST", "/api/data/save", [NoInput EXCEPT !.key = key, !.value = value],
            "/api/data/save", "responded", 200,
            [NoBody EXCEPT !.success = "true"])
  /\ UNCHANGED << logLines, now, up, starts, portfolioData,
                  httpRequestsTotal, httpRequestDuration, faults >>

\* GET /api/data/:key
GetData(r, p, key) ==
  /\ up[p] /\ NextReq(r)
  /\ LET f == FileAt(key)
         path == "/api/data/" \o key
     IN  CASE f.kind = "absent" ->
                Arrive(r, p, "GET", path, NoInput, "/api/data/:key", "responded", 404,
                       [NoBody EXCEPT !.success = "false", !.error = "Data not found"])
           [] f.kind = "corrupt" ->
                Arrive(r, p, "GET", path, NoInput, "/api/data/:key", "responded", 500,
                       [NoBody EXCEPT !.success = "false", !.error = "Unexpected token"])
           [] f.kind = "doc" ->
                Arrive(r, p, "GET", path, NoInput, "/api/data/:key", "responded", 200,
                       [NoBody EXCEPT !.success = "true", !.value = DocValue,
                                      !.data = f.doc.projects])
           [] f.kind = "json" ->
                Arrive(r, p, "GET", path, NoInput, "/api/data/:key", "responded", 200,
                       [NoBody EXCEPT !.success = "true", !.value = f.val])
  /\ UNCHANGED << dataFile, dataDir, logLines, now, up, starts, portfolioData,
                  httpRequestsTotal, httpRequestDuration, faults >>

\* fs.readdirSync(DATA_DIR): the names of the files the directory holds.
DataFiles ==
  {k \in OtherKeys : dataDir[k].kind # "absent"} \cup
  (IF dataFile.kind # "absent" THEN {DataFileKey} ELSE {})

\* GET /api/storage
GetStorage(r, p) ==
  /\ up[p] /\ NextReq(r)
  /\ Arrive(r, p, "GET", "/api/storage", NoInput, "/api/storage", "responded", 200,
            [NoBody EXCEPT !.success = "true",
                           !.count = Cardinality(DataFiles) + Cardinality(LogDays(logLines))])
  /\ UNCHANGED << dataFile, dataDir, logLines, now, up, starts, portfolioData,
                  httpRequestsTotal, httpRequestDuration, faults >>

\* The lines query parameter of GET /api/logs: -1 stands for none given.
LinesParams == {-1, 0, 1, 2}

\* const { lines = 50 } = req.query
DefaultLines == 50
LinesOf(param) == IF param = -1 THEN DefaultLines ELSE param

\* s.slice(-n) for n >= 0: -0 is 0, and slice(0) is the whole array.
SliceLast(s, n) ==
  IF n = 0 \/ n >= Len(s) THEN s ELSE SubSeq(s, Len(s) - n + 1, Len(s))

\* .sort().reverse()[0] of the log file names: the greatest date.
LatestDay(days) == CHOOSE d \in days : \A e \in days : e <= d

\* logContent.split('\n').length: every line ends with a newline, so the
\* split gives one more piece than there are lines.
SplitLength(lines) == Len(lines) + 1

\* The URL of a request for the logs.
LogsUrl(param) ==
  IF param = -1 THEN "/api/logs" ELSE "/api/logs?lines=" \o ToString(param)

\* GET /api/logs?lines=param
GetLogs(r, p, param) ==
  /\ up[p] /\ NextReq(r)
  /\ LET days == LogDays(logLines)
         path == LogsUrl(param)
     IN  IF days = {}
         THEN Arrive(r, p, "GET", path, NoInput,
                     "/api/logs", "responded", 200,
                     [NoBody EXCEPT !.success = "true"])
         ELSE LET content == LogFile(logLines, LatestDay(days))
                  shown == SliceLast(content, LinesOf(param))
              IN  Arrive(r, p, "GET", path, NoInput,
                         "/api/logs", "responded", 200,
                         [NoBody EXCEPT !.success = "true", !.data = shown,
                                        !.log_file = LatestDay(days),
                                        !.total_lines = SplitLength(content),
                                        !.count = Len(shown)])
  /\ UNCHANGED << dataFile, dataDir, logLines, now, up, starts, portfolioData,
                  httpRequestsTotal, httpRequestDuration, faults >>

\* GET /metrics up to its await: the response is rendered in a later step.
MetricsArrive(r, p) ==
  /\ up[p] /\ NextReq(r)
  /\ Arrive(r, p, "GET", "/metrics", NoInput, "/metrics", "pending", 200, NoBody)
  /\ UNCHANGED << dataFile, dataDir, logLines, now, up, starts, portfolioData,
                  httpRequestsTotal, httpRequestDuration, faults >>

\* register.metrics() as far as the custom series go.
Metrics(p) ==
  [NoBody EXCEPT !.total = httpRequestsTotal[p], !.active = activeConnections[p]]

\* GET /metrics after the await: res.end(metrics).
MetricsRender(r) ==
  /\ reqs[r].st = "pending"
  /\ up[reqs[r].proc] /\ reqs[r].life = starts[reqs[r].proc]
  /\ reqs' = [reqs EXCEPT ![r] = [@ EXCEPT !.st = "responded",
                                           !.body = Metrics(reqs[r].proc),
                                           !.trace = Append(@, "handler")]]
  /\ UNCHANGED << dataFile, dataDir, logLines, now, up, starts, portfolioData,
                  activeConnections, httpRequestsTotal, httpRequestDuration, faults >>

\* What becomes of the rejected promise of the async /metrics handler: the
\* runtime ends the process on an unhandled rejection ("crash"), or only
\* warns and the request is never answered ("hang"), or the framework hands
\* the rejection to the error middleware ("handled").
RejectionOutcomes == {"crash", "hang", "handled"}

\* GET /metrics after the await when register.metrics() rejects with an
\* Error: the catch sets status 500 and calls res.end(error), which throws
\* for a chunk that is neither a string nor a buffer, so the handler's
\* promise rejects.
MetricsFail(r, outcome) ==
  /\ reqs[r].st = "pending"
  /\ up[reqs[r].proc] /\ reqs[r].life = starts[reqs[r].proc]
  /\ LET p == reqs[r].proc
     IN  CASE outcome = "crash" ->
                /\ up' = [up EXCEPT ![p] = FALSE]
                /\ portfolioData' = [portfolioData EXCEPT ![p] = NoDoc]
                /\ reqs' = [q \in ReqIds |->
                              IF q = r THEN [reqs[q] EXCEPT !.st = "aborted", !.status = 500]
                              ELSE IF InFlight(q, p) THEN [reqs[q] EXCEPT !.st = "aborted"]
                              ELSE reqs[q]]
           [] outcome = "hang" ->
                /\ reqs' = [reqs EXCEPT ![r] = [@ EXCEPT !.st = "hung", !.status = 500]]
                /\ UNCHANGED << up, portfolioData >>
           [] outcome = "handled" ->
                /\ reqs' = [reqs EXCEPT ![r] =
                              [@ EXCEPT !.st = "responded", !.status = 500,
                                        !.body = [NoBody EXCEPT !.success = "false",
                                                                !.error = "Internal server error"],
                                        !.trace = Append(@, "handler")]]
                /\ UNCHANGED << up, portfolioData >>
  /\ UNCHANGED << dataFile, dataDir, logLines, now, starts, activeConnections,
                  httpRequestsTotal, httpRequestDuration, faults >>

\* Paths no route matches: the 404 handler answers and req.route is unset.
UnmatchedPaths == {"/admin", "/favicon.ico"}

NotFound(r, p, path) ==
  /\ up[p] /\ NextReq(r)
  /\ Arrive(r, p, "GET", path, NoInput, "", "responded", 404,
            [NoBody EXCEPT !.success = "false", !.error = "Endpoint not found"])
  /\ UNCHANGED << dataFile, dataDir, logLines, now, up, starts, portfolioData,
                  httpRequestsTotal, httpRequestDuration, faults >>

\* A label taken from the request path whether or not a route matched.
RouteLabelPath(q) == q.path

\* req.route ? req.route.path : req.path
RouteLabel(q) == IF q.route # "" THEN q.route ELSE q.path

Labels(q) == [method |-> q.method, route |-> RouteLabel(q), status |-> q.status]

\* A gauge decremented by both finish listeners.
DecGaugeTwice(g) == g - 2

\* gauge.dec()
DecGauge(g) == g - 1

\* A series incremented under a constant status label.
IncStatus200(series, labels) == series (+) SetToBag({[labels EXCEPT !.status = 200]})

\* counter.labels(...).inc() / histogram.labels(...).observe(...)
Inc(series, labels) == series (+) SetToBag({labels})

\* The 'finish' event and its listeners in the order res.on registered
\* them: the gauge's (line 50) before the metrics' (line 60).
FinishListeners == << "finish", "dec", "record" >>

\* The response's 'finish' event: the listeners run in the order they were
\* registered, the gauge's first.
Finish(r) ==
  /\ reqs[r].st = "responded"
  /\ up[reqs[r].proc] /\ reqs[r].life = starts[reqs[r].proc]
  /\ LET p == reqs[r].proc
     IN  /\ activeConnections' = [activeConnections EXCEPT ![p] = DecGauge(@)]
         /\ httpRequestDuration' =
              [httpRequestDuration EXCEPT ![p] = Inc(@, Labels(reqs[r]))]
         /\ httpRequestsTotal' =
              [httpRequestsTotal EXCEPT ![p] = Inc(@, Labels(reqs[r]))]
  /\ reqs' = [reqs EXCEPT ![r] = [@ EXCEPT !.st = "finished",
                                           !.trace = @ \o FinishListeners]]
  /\ UNCHANGED << dataFile, dataDir, logLines, now, up, starts, portfolioData, faults >>

\* A server that also decrements the gauge when the connection closes.
AbortDec(r) ==
  /\ reqs[r].st \in {"pending", "responded"}
  /\ up[reqs[r].proc] /\ reqs[r].life = starts[reqs[r].proc]
  /\ reqs' = [reqs EXCEPT ![r] = [@ EXCEPT !.st = "aborted"]]
  /\ activeConnections' = [activeConnections EXCEPT ![reqs[r].proc] = @ - 1]
  /\ UNCHANGED << dataFile, dataDir, logLines, now, up, starts, portfolioData,
                  httpRequestsTotal, httpRequestDuration, faults >>

\* The client goes away before the response is finished: 'close' fires and
\* 'finish' never does.
Abort(r) ==
  /\ reqs[r].st \in {"pending", "responded"}
  /\ up[reqs[r].proc] /\ reqs[r].life = starts[reqs[r].proc]
  /\ reqs' = [reqs EXCEPT ![r] = [@ EXCEPT !.st = "aborted"]]
  /\ UNCHANGED << dataFile, dataDir, logLines, now, up, starts, portfolioData,
                  activeConnections, httpRequestsTotal, httpRequestDuration, faults >>

\* --------------------------------------------------------- specifications
\* One step of the system when the file system answers as in E and clients
\* ask for the :id parameters PS and the unmatched paths UP.
Step(E, PS, UP) ==
  \/ \E p \in Procs :
       \/ \E env \in EnvsNow(E) : Start(p, env)
       \/ Stop(p)
       \/ Crash(p)
       \/ \E r \in ReqIds :
            \/ GetProjects(r, p)
            \/ \E param \in PS : GetProject(r, p, param)
            \/ \E b \in Bodies, env \in EnvsNow(E) : PostProjects(r, p, b, env)
            \/ \E b \in Bodies : CrashDuringSave(r, p, b)
            \/ MetricsArrive(r, p)
            \/ \E path \in UP : NotFound(r, p, path)
  \/ \E r \in ReqIds : MetricsRender(r) \/ Finish(r) \/ Abort(r)

\* One process on a file system that never fails.
Next == Step({NoFaults}, Params, UnmatchedPaths)
Spec == Init /\ [][Next]_vars

\* Time passes: the clock reaches the next tick.
Tick ==
  /\ now < MaxNow
  /\ now' = now + 1
  /\ UNCHANGED << dataFile, dataDir, logLines, up, starts, portfolioData,
                  activeConnections, httpRequestsTotal, httpRequestDuration, reqs,
                  faults >>

\* One life of one process on a file system that never fails, serving every
\* route, while days pass.
NextApi ==
  \/ \E p \in Procs :
       \/ Start(p, NoFaults)
       \/ \E r \in ReqIds :
            \/ Health(r, p)
            \/ Ready(r, p)
            \/ Root(r, p)
            \/ GetProjects(r, p)
            \/ GetProject(r, p, "1")
            \/ GetSkills(r, p)
            \/ GetStats(r, p)
            \/ \E b \in Bodies : PostProjects(r, p, b, NoFaults)
            \/ \E key \in SaveKeys, value \in KvValues : SaveData(r, p, key, value)
            \/ \E key \in GetKeys : GetData(r, p, key)
            \/ GetStorage(r, p)
            \/ \E param \in LinesParams : GetLogs(r, p, param)
            \/ MetricsArrive(r, p)
            \/ NotFound(r, p, "/admin")
  \/ \E r \in ReqIds : MetricsRender(r) \/ Finish(r)
  \/ Tick
SpecApi == Init /\ [][NextApi]_vars

\* One process whose metrics registry may fail to render, serving clients
\* that read the projects and scrape the metrics.
NextMetrics ==
  \/ \E p \in Procs :
       \/ Start(p, NoFaults)
       \/ Stop(p)
       \/ \E r \in ReqIds :
            \/ GetProjects(r, p)
            \/ MetricsArrive(r, p)
  \/ \E r \in ReqIds :
       \/ MetricsRender(r)
       \/ \E outcome \in RejectionOutcomes : MetricsFail(r, outcome)
       \/ Finish(r)
SpecMetrics == Init /\ [][NextMetrics]_vars

\* One process on a file system whose writes and appends may throw, serving
\* clients that add projects and read them back.
NextFaults ==
  \/ \E p \in Procs :
       \/ \E env \in EnvsNow(Envs) : Start(p, env)
       \/ Stop(p)
       \/ \E r \in ReqIds :
            \/ GetProjects(r, p)
            \/ GetProject(r, p, "6")
            \/ \E b \in Bodies, env \in EnvsNow(Envs) : PostProjects(r, p, b, env)
  \/ \E r \in ReqIds : Finish(r)
SpecFaults == Init /\ [][NextFaults]_vars

\* Two processes (replicas) sharing the data volume, serving clients that
\* add projects.
InitMulti == InitWith({1, 2})
NextMulti ==
  \/ \E p \in Procs :
       \/ Start(p, NoFaults)
       \/ Stop(p)
       \/ \E r \in ReqIds, b \in Bodies : PostProjects(r, p, b, NoFaults)
  \/ \E r \in ReqIds : Finish(r)
SpecMulti == InitMulti /\ [][NextMulti]_vars

\* Two processes sharing the data volume, each in its one life, serving
\* clients that add projects and read through every read endpoint.
NextShared ==
  \/ \E p \in Procs :
       \/ Start(p, NoFaults)
       \/ \E r \in ReqIds :
            \/ GetProjects(r, p)
            \/ GetProject(r, p, "6")
            \/ GetSkills(r, p)
            \/ GetStats(r, p)
            \/ GetStorage(r, p)
            \/ GetLogs(r, p, 1)
            \/ GetData(r, p, DataFileKey)
            \/ PostProjects(r, p, [title |-> "Wiki", technologies |-> NoTech], NoFaults)
  \/ \E r \in ReqIds : Finish(r)
SpecShared == InitMulti /\ [][NextShared]_vars

\* One process that is stopped and started again, serving clients that
\* store values under the key of the document file and read the document.
NextRestart ==
  \/ \E p \in Procs :
       \/ Start(p, NoFaults)
       \/ Stop(p)
       \/ \E r \in ReqIds :
            \/ GetProjects(r, p)
            \/ GetSkills(r, p)
            \/ GetStats(r, p)
            \/ \E value \in KvValues : SaveData(r, p, DataFileKey, value)
  \/ \E r \in ReqIds : Finish(r)
SpecRestart == Init /\ [][NextRestart]_vars

\* One process that is stopped and started again on a file system that may
\* fail, serving clients that add projects and store a value under the key
\* of the document file.
NextAdd ==
  \/ \E p \in Procs :
       \/ Start(p, NoFaults)
       \/ Stop(p)
       \/ \E r \in ReqIds :
            \/ SaveData(r, p, DataFileKey, Null)
            \/ \E env \in EnvsNow(Envs) :
                 PostProjects(r, p, [title |-> "Wiki", technologies |-> NoTech], env)
  \/ \E r \in ReqIds : Finish(r)
SpecAdd == Init /\ [][NextAdd]_vars

\* ================================================================ claims
\* The requests of process p's current life, by how far they have come.
Entered(p) ==
  {r \in ReqIds : reqs[r].st # "idle" /\ reqs[r].proc = p /\ reqs[r].life = starts[p]}

Finished(p) == {r \in Entered(p) : reqs[r].st = "finished"}

\* C1: the http_active_connections gauge of a process equals the number of
\* its requests that entered the first middleware and whose response has not
\* finished; it is never negative, and it is back at its start value 0 when
\* every request that entered has finished.
C1_GaugeCountsOpenRequests ==
  \A p \in Procs :
    /\ activeConnections[p] = Cardinality(Entered(p) \ Finished(p))
    /\ activeConnections[p] >= 0
    /\ Entered(p) = Finished(p) => activeConnections[p] = 0

\* C1 witness: after one request has finished while another is still open,
\* the gauge reads 1.
C1_Witness ==
  \E p \in Procs, r, q \in ReqIds :
    /\ r \in Finished(p)
    /\ q \in Entered(p) /\ reqs[q].st = "responded"
    /\ activeConnections[p] = 1

\* The requests of p's current life that finished with label triple t.
CountFinished(p, t) == Cardinality({r \in Finished(p) : Labels(reqs[r]) = t})

Triples(p) == {Labels(reqs[r]) : r \in Entered(p)} \cup BagToSet(httpRequestsTotal[p])

C2_CounterMatches ==
  \A p \in Procs : \A t \in Triples(p) :
    CopiesIn(t, httpRequestsTotal[p]) = CountFinished(p, t)

C2_Monotone ==
  \A p \in Procs :
    starts'[p] = starts[p] =>
      \A t \in BagToSet(httpRequestsTotal[p]) :
        CopiesIn(t, httpRequestsTotal'[p]) >= CopiesIn(t, httpRequestsTotal[p])

C2_RenderedBody ==
  \A r \in ReqIds :
    reqs[r].st = "pending" /\ reqs'[r].st = "responded" =>
      LET p == reqs[r].proc
          shown == reqs'[r].body.total
      IN  /\ r \notin Finished(p)
          /\ \A t \in Triples(p) \cup BagToSet(shown) :
               CopiesIn(t, shown) = CountFinished(p, t)

\* C2: for every (method, route, status) triple, http_requests_total of a
\* process equals the number of its requests that finished with that triple;
\* no value decreases while the process lives; and the body GET /metrics
\* renders shows, for every triple, the number of requests finished before
\* the rendering, the /metrics request itself not among them.
C2_RequestsTotal ==
  /\ C2_CounterMatches
  /\ [][C2_CounterMatches' /\ C2_Monotone /\ C2_RenderedBody]_vars

\* C2 witness: a /metrics response that shows one finished request under its
\* triple while the /metrics request itself is not yet counted.
C2_Witness ==
  \E p \in Procs, r, q \in ReqIds :
    /\ q \in Finished(p)
    /\ r \in Entered(p) /\ reqs[r].route = "/metrics" /\ reqs[r].st = "responded"
    /\ CopiesIn(Labels(reqs[q]), reqs[r].body.total) = 1
    /\ CopiesIn(Labels(reqs[r]), reqs[r].body.total) = 0
    /\ CopiesIn(Labels(reqs[q]), httpRequestsTotal[p]) = 1

\* A step in which POST /api/projects request r is answered by process p.
PostStep(r, p) ==
  /\ reqs[r].st = "idle" /\ reqs'[r].st = "responded"
  /\ reqs'[r].method = "POST" /\ reqs'[r].proc = p

DistinctIds(ps) == \A i, j \in 1 .. Len(ps) : i # j => ps[i].id # ps[j].id

LastOf(ps) == ps[Len(ps)]

\* C3: in one process the ids of the in-memory projects are pairwise
\* distinct after every step, and the id addProject assigns is strictly
\* greater than every id present before the call.
C3_IdsUniqueAndIncreasing ==
  [][\A p \in Procs :
       /\ up'[p] => DistinctIds(portfolioData'[p].projects)
       /\ \A r \in ReqIds :
            PostStep(r, p) /\ Len(portfolioData'[p].projects) = Len(portfolioData[p].projects) + 1 =>
              \A i \in 1 .. Len(portfolioData[p].projects) :
                NumLess(ToNumber(portfolioData[p].projects[i].id),
                        LastOf(portfolioData'[p].projects).id)]_vars

\* The greatest of a non-empty set of JavaScript numbers.
Greatest(S) == CHOOSE m \in S : \A x \in S : ~NumLess(m, x)

\* C4: addProject on a non-empty projects sequence appends exactly one record
\* at the end, with id = (maximum existing id) + 1, featured = false, the
\* title of the request and its technologies or the empty list; it changes no
\* existing project and no skill, writes the document to the file and answers
\* 201 with the created record.
C4_AddProjectAppends ==
  [][\A p \in Procs, r \in ReqIds :
       PostStep(r, p) /\ portfolioData[p].projects # << >> =>
         LET old == portfolioData[p]
             new == portfolioData'[p]
             n == Len(old.projects)
             rec == LastOf(new.projects)
             b == reqs'[r].input
         IN  /\ Len(new.projects) = n + 1
             /\ SubSeq(new.projects, 1, n) = old.projects
             /\ rec.id = PlusOne(Greatest({ToNumber(old.projects[i].id) : i \in 1 .. n}))
             /\ rec.featured = FALSE
             /\ rec.title = b.title
             /\ rec.technologies = IF b.technologies.def THEN b.technologies.val ELSE << >>
             /\ new.skills = old.skills
             /\ dataFile'.kind = "doc"
             /\ dataFile'.doc.projects = JsonProjects(new.projects)
             /\ dataFile'.doc.skills = new.skills
             /\ reqs'[r].status = 201
             /\ reqs'[r].body.success = "true"
             /\ reqs'[r].body.data = JsonProjects(<< rec >>)]_vars

\* C4 witness: a document with ids 1, 5, 2 got a fourth project with id 6
\* and the empty technologies list, answered 201.
C4_Witness ==
  \E p \in Procs, r \in ReqIds :
    /\ up[p] /\ r \in Entered(p)
    /\ reqs[r].method = "POST" /\ reqs[r].status = 201
    /\ ~reqs[r].input.technologies.def
    /\ Len(portfolioData[p].projects) = 4
    /\ Ids(portfolioData[p].projects) = << Num(1), Num(5), Num(2), Num(6) >>
    /\ LastOf(portfolioData[p].projects).technologies = << >>
    /\ reqs[r].body.data = << LastOf(portfolioData[p].projects) >>

\* C5: addProject on an empty projects sequence answers 500 with
\* success:false, appends nothing and leaves the document file as it was (or
\* else gives the record id 1).
C5_EmptyAddFails ==
  [][\A p \in Procs, r \in ReqIds :
       PostStep(r, p) /\ portfolioData[p].projects = << >> =>
         \/ /\ reqs'[r].status = 500
            /\ reqs'[r].body.success = "false"
            /\ portfolioData'[p].projects = << >>
            /\ dataFile' = dataFile
         \/ /\ Len(portfolioData'[p].projects) = 1
            /\ portfolioData'[p].projects[1].id = Num(1)]_vars

\* The last project of p and of q was each created by an addProject call of
\* its own process, on top of the same projects.
Created(p, rec) ==
  \E r \in Entered(p) :
    /\ reqs[r].method = "POST" /\ reqs[r].status = 201
    /\ reqs[r].body.data = JsonProjects(<< rec >>)

Front(ps) == SubSeq(ps, 1, Len(ps) - 1)

Race(p, q) ==
  /\ p # q /\ up[p] /\ up[q]
  /\ portfolioData[p].projects # << >> /\ portfolioData[q].projects # << >>
  /\ Front(portfolioData[p].projects) = Front(portfolioData[q].projects)
  /\ Created(p, LastOf(portfolioData[p].projects))
  /\ Created(q, LastOf(portfolioData[q].projects))

HasProject(file, rec) ==
  /\ file.kind = "doc"
  /\ \E i \in 1 .. Len(file.doc.projects) : file.doc.projects[i] = JsonProject(rec)

\* C6: when two processes sharing the file have each added one project on
\* top of the same loaded projects, the two records carry the same id, the
\* file holds the projects of one process only, and of two different records
\* it holds at most one.
C6_RaceDuplicatesAndOverwrites ==
  \A p, q \in Procs :
    Race(p, q) =>
      LET P == portfolioData[p].projects
          Q == portfolioData[q].projects
      IN  /\ JsonNumber(LastOf(P).id) = JsonNumber(LastOf(Q).id)
          /\ dataFile.kind = "doc" =>
               dataFile.doc.projects \in {JsonProjects(P), JsonProjects(Q)}
          /\ JsonProject(LastOf(P)) # JsonProject(LastOf(Q)) =>
               ~(HasProject(dataFile, LastOf(P)) /\ HasProject(dataFile, LastOf(Q)))

\* C6 witness: processes 1 and 2 added different projects under the same id,
\* process 2 saved last and the file has lost the record of process 1.
C6_Witness ==
  /\ DOMAIN up = {1, 2}
  /\ Race(1, 2)
  /\ LastOf(portfolioData[1].projects).title # LastOf(portfolioData[2].projects).title
  /\ LastOf(portfolioData[1].projects).id = LastOf(portfolioData[2].projects).id
  /\ LastOf(portfolioData[1].projects).id.k = "num"
  /\ dataFile = FileOf(portfolioData[2])
  /\ ~HasProject(dataFile, LastOf(portfolioData[1].projects))

HasLine(message) == \E i \in 1 .. Len(logLines) : logLines[i].message = message

\* The document write of the addProject call answered in this step failed:
\* the file does not hold the document the process has in memory.
WriteFailed(p) == dataFile' # FileOf(portfolioData'[p])

\* C7: when the document write fails during addProject, the caller receives
\* status 500 with success:false and an error string, and the failure is
\* logged.
C7_WriteFailureAnswers500 ==
  [][\A p \in Procs, r \in ReqIds :
       PostStep(r, p) /\ WriteFailed(p) =>
         /\ reqs'[r].status = 500
         /\ reqs'[r].body.success = "false"
         /\ reqs'[r].body.error # ""
         /\ Len(logLines') > Len(logLines)
         /\ \E i \in Len(logLines) + 1 .. Len(logLines') :
              logLines'[i] = LogEntry("error", "Failed to save portfolio data to storage")]_vars

IsPrefix(s, t) == Len(s) <= Len(t) /\ SubSeq(t, 1, Len(s)) = s

\* A step in which GET request r on the given route is answered by p.
GetStep(r, p, route) ==
  /\ reqs[r].st = "idle" /\ reqs'[r].st = "responded"
  /\ reqs'[r].method = "GET" /\ reqs'[r].route = route /\ reqs'[r].proc = p

\* C8: a failed document write in addProject leaves the new project in
\* memory and the file without it; the projects in memory are never taken
\* away while the process lives; GET /api/projects and GET /api/projects/:id
\* answer from memory; and every later write of a document puts all projects
\* in memory on disk.
C8_NoRollback ==
  [][\A p \in Procs :
       /\ \A r \in ReqIds :
            PostStep(r, p) /\ WriteFailed(p) =>
              /\ Len(portfolioData'[p].projects) = Len(portfolioData[p].projects) + 1
              /\ LastOf(portfolioData'[p].projects).title = reqs'[r].input.title
              /\ dataFile' \in {dataFile, FileCorrupt}
       /\ up[p] /\ up'[p] =>
            IsPrefix(portfolioData[p].projects, portfolioData'[p].projects)
       /\ \A r \in ReqIds :
            /\ GetStep(r, p, "/api/projects") =>
                 /\ reqs'[r].status = 200
                 /\ reqs'[r].body.data = JsonProjects(portfolioData[p].projects)
            /\ GetStep(r, p, "/api/projects/:id") =>
                 \A param \in Params, i \in 1 .. Len(portfolioData[p].projects) :
                   /\ reqs'[r].path = "/api/projects/" \o param
                   /\ portfolioData[p].projects[i].id = ParseInt(param)
                   /\ \A j \in 1 .. i - 1 : portfolioData[p].projects[j].id # ParseInt(param)
                   => /\ reqs'[r].status = 200
                      /\ reqs'[r].body.data = JsonProjects(<< portfolioData[p].projects[i] >>)
            /\ PostStep(r, p) /\ dataFile' # dataFile /\ dataFile'.kind = "doc" =>
                 dataFile'.doc.projects = JsonProjects(portfolioData'[p].projects)]_vars

\* C8 witness: after an addProject whose write failed and a later one whose
\* write succeeded, both projects are in memory and on disk.
C8_Witness ==
  \E p \in Procs :
    /\ up[p]
    /\ HasLine("Failed to save portfolio data to storage")
    /\ Cardinality({r \in Entered(p) : reqs[r].method = "POST" /\ reqs[r].status = 201}) = 2
    /\ Ids(portfolioData[p].projects) = << Num(1), Num(5), Num(2), Num(6), Num(7) >>
    /\ dataFile = FileOf(portfolioData[p])

\* A step in which process p starts.
StartStep(p) == ~up[p] /\ starts'[p] = starts[p] + 1

\* C9: when the backing file is absent or cannot be parsed at process start,
\* load() returns the default document (projects 1 and 2, skills 1..5)
\* without throwing, and the file then holds exactly the default document.
C9_DefaultOnAbsentOrCorrupt ==
  [][\A p \in Procs :
       StartStep(p) /\ dataFile.kind \in {"absent", "corrupt"} =>
         /\ up'[p]
         /\ Ids(portfolioData'[p].projects) = << Num(1), Num(2) >>
         /\ [i \in 1 .. Len(portfolioData'[p].skills) |-> portfolioData'[p].skills[i].id]
              = << 1, 2, 3, 4, 5 >>
         /\ portfolioData'[p].projects = DefaultData(now).projects
         /\ dataFile'.kind = "doc"
         /\ dataFile'.doc = portfolioData'[p]]_vars

\* C9 witness: a project was added and answered 201, a crash during a later
\* write left truncated text, and after the restart memory and file hold the
\* default projects only.
C9_Witness ==
  \E p \in Procs, r \in ReqIds :
    /\ up[p] /\ starts[p] = 2
    /\ reqs[r].proc = p /\ reqs[r].life = 1
    /\ reqs[r].method = "POST" /\ reqs[r].status = 201
    /\ Ids(portfolioData[p].projects) = << Num(1), Num(2) >>
    /\ dataFile = FileOf(portfolioData[p])
    /\ \A i \in 1 .. Len(dataFile.doc.projects) :
         << dataFile.doc.projects[i] >> # reqs[r].body.data

\* The addProject calls of p's current (or just ended) life answered 201.
Posted(p) == {r \in Entered(p) : reqs[r].method = "POST" /\ reqs[r].status = 201}

\* Where the record of r stands among n projects: before the records of the
\* later calls of the same life.
PlaceOf(p, r, n) == n - Cardinality({q \in Posted(p) : q > r})

C10_OnDisk(p) ==
  dataFile.kind = "doc" =>
    \A r \in Posted(p) :
      /\ PlaceOf(p, r, Len(dataFile.doc.projects)) >= 1
      /\ << dataFile.doc.projects[PlaceOf(p, r, Len(dataFile.doc.projects))] >>
           = reqs[r].body.data

\* C10: a record addProject answered with 201 is in the document file, after
\* the projects that preceded it, as long as no crash truncates the file; the
\* next start loads it from there with the same id and fields at the same
\* place; and an addProject after that assigns an id greater than the id of
\* every loaded record.
C10_AddedProjectSurvivesRestart ==
  [][\A p \in Procs :
       /\ C10_OnDisk(p)'
       /\ StartStep(p) /\ dataFile.kind = "doc" =>
            /\ up'[p]
            /\ \A r \in Posted(p) :
                 << portfolioData'[p].projects[PlaceOf(p, r, Len(portfolioData'[p].projects))] >>
                   = reqs[r].body.data
       /\ \A r \in ReqIds :
            PostStep(r, p) =>
              \A i \in 1 .. Len(portfolioData[p].projects) :
                portfolioData[p].projects[i].id.k # "neginf" =>
                  NumLess(ToNumber(portfolioData[p].projects[i].id),
                          LastOf(portfolioData'[p].projects).id)]_vars

\* C10 witness: a project added with id 6 in the first life is in memory in
\* the second life at the fourth place, and the next project got id 7.
C10_Witness ==
  \E p \in Procs, r, q \in ReqIds :
    /\ up[p] /\ starts[p] = 2
    /\ reqs[r].proc = p /\ reqs[r].life = 1 /\ reqs[r].method = "POST" /\ reqs[r].status = 201
    /\ q \in Posted(p)
    /\ Len(portfolioData[p].projects) = 5
    /\ << portfolioData[p].projects[4] >> = reqs[r].body.data
    /\ portfolioData[p].projects[4].id = Num(6)
    /\ portfolioData[p].projects[5].id = Num(7)

\* What DATA_FILE holds when load() reads file f and save() writes what load
\* returned, on a file system that does not fail.
LoadThenSave(f) ==
  savePortfolioData(loadPortfolioData([Ctx(NoDoc, NoFaults) EXCEPT !.file = f])).file

Unstamped(f) == [f EXCEPT !.doc.metadata.last_updated = -1]

\* C11: for every document file, load() followed by save() writes a file
\* with the same projects and the same skills, element for element and in
\* the same order; nothing but metadata.last_updated differs; and a second
\* load-then-save writes the same again.
C11_RoundTrip ==
  dataFile.kind = "doc" =>
    LET once == LoadThenSave(dataFile)
        twice == LoadThenSave(once)
    IN  /\ once.kind = "doc"
        /\ once.doc.projects = dataFile.doc.projects
        /\ once.doc.skills = dataFile.doc.skills
        /\ Unstamped(once) = Unstamped(dataFile)
        /\ once.doc.metadata.last_updated = now
        /\ twice = once

\* C11 witness: a file that save() wrote in an earlier life of the process,
\* with an added project whose non-finite id was written as null, was loaded
\* again; load-then-save changes its stamp and nothing else.
C11_Witness ==
  \E p \in Procs :
    /\ up[p] /\ starts[p] = 2
    /\ dataFile.kind = "doc"
    /\ Len(dataFile.doc.projects) = 1
    /\ dataFile.doc.projects[1].id = Null
    /\ portfolioData[p] = dataFile.doc
    /\ LoadThenSave(dataFile) # dataFile
    /\ Unstamped(LoadThenSave(dataFile)) = Unstamped(dataFile)

\* The integer a request parameter denotes: a decimal numeral denotes its
\* value and any other text denotes no integer.
Denoted(param) ==
  CASE param = "1" -> Num(1)
    [] param = "6" -> Num(6)
    [] OTHER -> NaN

\* C12: GET /api/projects/:id answers 404 with success:false when no project
\* in memory has the id the parameter denotes, and 200 with success:true and
\* the project of that id otherwise; a 200 is given only for a parameter that
\* denotes the id of the returned project.
C12_GetProjectById ==
  [][\A p \in Procs, r \in ReqIds, param \in Params :
       GetStep(r, p, "/api/projects/:id") /\ reqs'[r].path = "/api/projects/" \o param =>
         LET ps == portfolioData[p].projects
             has == {i \in 1 .. Len(ps) : ps[i].id = Denoted(param)}
         IN  IF has = {}
             THEN /\ reqs'[r].status = 404
                  /\ reqs'[r].body.success = "false"
                  /\ reqs'[r].body.error # ""
             ELSE /\ reqs'[r].status = 200
                  /\ reqs'[r].body.success = "true"
                  /\ \E i \in has : reqs'[r].body.data = JsonProjects(<< ps[i] >>)]_vars

\* The requests the server has answered.
Answered == {r \in ReqIds : reqs[r].st \in {"responded", "finished"}}

\* C13: every response body, on every route, carries the boolean field
\* success, and every response with status 404 or 500 carries success:false
\* and an error string.
C13_SuccessEnvelope ==
  \A r \in Answered :
    /\ reqs[r].body.success \in {"true", "false"}
    /\ reqs[r].status \in {404, 500} =>
         reqs[r].body.success = "false" /\ reqs[r].body.error # ""

\* The requests of p's current life whose response will never finish, and
\* those still in flight.
Hung(p) == {r \in Entered(p) : reqs[r].st = "aborted"}
InFlightOf(p) == {r \in Entered(p) : reqs[r].st \in {"pending", "responded"}}

C14_GaugeAboveInFlight ==
  \A p \in Procs :
    activeConnections[p] = Cardinality(Hung(p)) + Cardinality(InFlightOf(p))

C14_NeverDecremented ==
  \A p \in Procs :
    /\ starts'[p] = starts[p] =>
         /\ Hung(p) \subseteq {r \in ReqIds : reqs'[r].st = "aborted"}
         /\ activeConnections'[p] >= Cardinality(Hung(p))
         /\ \A r \in InFlightOf(p) :
              reqs'[r].st = "aborted" => activeConnections'[p] >= activeConnections[p]
    /\ activeConnections'[p] < Cardinality(Hung(p)) =>
         StartStep(p) /\ activeConnections'[p] = 0

\* C14: a request whose response never finishes is never taken off
\* http_active_connections: the gauge is the number of requests in flight
\* plus the number of such requests, the step in which the client goes away
\* does not lower the gauge, the request stays counted for the rest of the
\* process lifetime, and only a start of the process brings the gauge back
\* below that number, to 0.
C14_HungRequestStaysCounted ==
  /\ C14_GaugeAboveInFlight
  /\ [][C14_GaugeAboveInFlight' /\ C14_NeverDecremented]_vars

\* C14 witness: a client went away from one request, a later request of the
\* same process has finished, no request is in flight, and the gauge reads 1.
C14_Witness ==
  \E p \in Procs, r, q \in ReqIds :
    /\ up[p] /\ r \in Hung(p) /\ q \in Finished(p) /\ r < q
    /\ InFlightOf(p) = {}
    /\ activeConnections[p] = 1

\* A step in which the rendering of the registry failed for /metrics
\* request r: its catch block set status 500.
RenderFailed(r) == reqs[r].st = "pending" /\ reqs'[r].status = 500

\* C15: when rendering the registry fails, GET /metrics answers that request
\* with a 500 error response and the process keeps running.
C15_MetricsNeverThrows ==
  [][\A r \in ReqIds :
       RenderFailed(r) =>
         /\ reqs'[r].st = "responded"
         /\ up'[reqs[r].proc]]_vars

\* The finished requests of p that a series counts under label triple t: a
\* request a route matched counts under the pattern of the route, and a
\* request no route matched under its raw path.
CountedUnder(p, t) ==
  {r \in Finished(p) :
     /\ reqs[r].method = t.method
     /\ reqs[r].status = t.status
     /\ IF reqs[r].route = "" THEN reqs[r].path = t.route ELSE reqs[r].route = t.route}

\* C16: a finished request is recorded under the matched route pattern when
\* a route matched (all requests to /api/projects/<id> under
\* /api/projects/:id) and under the raw request path otherwise, so the
\* unmatched paths requested give as many label sets as there are distinct
\* paths; the duration histogram and the request counter hold the same
\* count under every triple.
C16_RouteLabels ==
  \A p \in Procs :
    /\ httpRequestDuration[p] = httpRequestsTotal[p]
    /\ \A r \in Finished(p) :
         \E t \in BagToSet(httpRequestsTotal[p]) : r \in CountedUnder(p, t)
    /\ \A t \in BagToSet(httpRequestsTotal[p]) :
         /\ CopiesIn(t, httpRequestsTotal[p]) = Cardinality(CountedUnder(p, t))
         /\ CopiesIn(t, httpRequestDuration[p]) = Cardinality(CountedUnder(p, t))
         /\ \A param \in Params : t.route # "/api/projects/" \o param
    /\ Cardinality({t \in BagToSet(httpRequestsTotal[p]) : t.route \in UnmatchedPaths})
         = Cardinality({reqs[r].path : r \in {q \in Finished(p) : reqs[q].route = ""}})

\* C16 witness: two finished requests to different /api/projects/<id> paths
\* are counted twice under the one label /api/projects/:id, in the counter
\* and in the histogram.
C16_Witness ==
  \E p \in Procs, r, q \in ReqIds :
    /\ up[p] /\ r \in Finished(p) /\ q \in Finished(p)
    /\ reqs[r].path = "/api/projects/1" /\ reqs[q].path = "/api/projects/1abc"
    /\ CopiesIn([method |-> "GET", route |-> "/api/projects/:id", status |-> 200],
                httpRequestsTotal[p]) = 2
    /\ CopiesIn([method |-> "GET", route |-> "/api/projects/:id", status |-> 200],
                httpRequestDuration[p]) = 2

\* C16 second witness: two finished requests to different unmatched paths
\* have one label set each.
C16_WitnessUnmatched ==
  \E p \in Procs, r, q \in ReqIds :
    /\ up[p] /\ r \in Finished(p) /\ q \in Finished(p)
    /\ reqs[r].path = "/admin" /\ reqs[q].path = "/favicon.ico"
    /\ BagToSet(httpRequestsTotal[p]) =
         { [method |-> "GET", route |-> "/admin", status |-> 404],
           [method |-> "GET", route |-> "/favicon.ico", status |-> 404] }

\* C17: the instrumentation steps of every request happen in the order gauge
\* increment, timing start, route handler, response finish, recording of
\* duration and count, gauge decrement.
C17_InstrumentationOrder ==
  \A r \in ReqIds :
    IsPrefix(reqs[r].trace, << "inc", "start", "handler", "finish", "record", "dec" >>)

\* The POST /api/data/save requests under key that were answered with
\* success before request r arrived.
SavedBefore(key, r) ==
  {q \in ReqIds :
     /\ q < r
     /\ reqs[q].route = "/api/data/save"
     /\ reqs[q].status = 200 /\ reqs[q].body.success = "true"
     /\ reqs[q].input.key = key}

Latest(S) == CHOOSE q \in S : \A x \in S : x <= q

\* C18: GET /api/data/<key> answers 200 with the value of the most recent
\* successful POST /api/data/save under that key, and 404 with success:false
\* for a key never saved through POST /api/data/save.
C18_KeyValueRoundTrip ==
  [][\A p \in Procs, r \in ReqIds, key \in GetKeys :
       GetStep(r, p, "/api/data/:key") /\ reqs'[r].path = "/api/data/" \o key =>
         IF SavedBefore(key, r) = {}
         THEN /\ reqs'[r].status = 404
              /\ reqs'[r].body.success = "false"
         ELSE /\ reqs'[r].status = 200
              /\ reqs'[r].body.success = "true"
              /\ reqs'[r].body.value = reqs[Latest(SavedBefore(key, r))].input.value]_vars

Min(a, b) == IF a <= b THEN a ELSE b

\* The lines of the log file with the greatest date in its name.
NewestLogFile ==
  LogFile(logLines, CHOOSE d \in LogDays(logLines) : \A e \in LogDays(logLines) : e <= d)

C19_LastLines(r, n) ==
  LET file == NewestLogFile
      m == Min(n, Len(file))
  IN  /\ reqs'[r].status = 200
      /\ reqs'[r].body.data = SubSeq(file, Len(file) - m + 1, Len(file))
      /\ reqs'[r].body.count = m
      /\ reqs'[r].body.count <= n

C19_TotalLines(r) == reqs'[r].body.total_lines = Len(NewestLogFile)

\* C19: GET /api/logs?lines=N returns, for every N >= 0, exactly the last
\* min(N, number of lines) lines of the log file with the greatest date in
\* its name, in file order; returned_lines is at most N, and total_lines is
\* the number of lines of that file.
C19_LogsLastN ==
  [][\A p \in Procs, r \in ReqIds, n \in LinesParams \ {-1} :
       /\ GetStep(r, p, "/api/logs")
       /\ reqs'[r].path = LogsUrl(n)
       /\ LogDays(logLines) # {}
       => C19_LastLines(r, n) /\ C19_TotalLines(r)]_vars

\* One logToFile call in the current state: one line more at the end of the
\* file of the current date, and every other file as it was.
C20_OneCall ==
  \A level \in {"info", "error"} :
    LET c == Ctx(NoDoc, NoFaults)
        d == logToFile(c, level, "message")
    IN  /\ LogFile(d.logs, Day(now)) =
             Append(LogFile(c.logs, Day(now)), LogEntry(level, "message"))
        /\ \A day \in LogDays(c.logs) \ {Day(now)} :
             LogFile(d.logs, day) = LogFile(c.logs, day)
        /\ LogDays(d.logs) = LogDays(c.logs) \cup {Day(now)}
        /\ d.file = c.file /\ d.data = c.data /\ ~d.exc

\* The logToFile calls of the handler that runs in a step.
LogCalls ==
  IF \E p \in Procs : StartStep(p)
  THEN CASE dataFile.kind = "absent" -> 2
         [] dataFile.kind = "corrupt" -> 4
         [] OTHER -> 1
  ELSE IF \E p \in Procs, r \in ReqIds : PostStep(r, p) THEN 2
  ELSE 0

C20_Step ==
  /\ IsPrefix(logLines, logLines')
  /\ Len(logLines') = Len(logLines) + LogCalls
  /\ \A i \in Len(logLines) + 1 .. Len(logLines') : Day(logLines'[i].timestamp) = Day(now)
  /\ LogDays(logLines) \subseteq LogDays(logLines')
  /\ \A day \in LogDays(logLines) :
       /\ IsPrefix(LogFile(logLines, day), LogFile(logLines', day))
       /\ day < Day(now) => LogFile(logLines', day) = LogFile(logLines, day)

\* C20: every logToFile call appends exactly one line to the file of the
\* current date and changes no other file; in every step the content of
\* every log file grows only by lines appended at its end, no log file
\* disappears, and the file of an earlier date stays as it is.
C20_LogAppendOnly ==
  /\ C20_OneCall
  /\ [][C20_OneCall' /\ C20_Step]_vars

\* C20 witness: the date has changed since the first lines were logged; the
\* file of the earlier date holds them still and the lines of the current
\* life went to the file of the current date.
C20_Witness ==
  \E p \in Procs :
    /\ up[p] /\ Day(now) = 1
    /\ Len(LogFile(logLines, 0)) >= 3
    /\ Len(LogFile(logLines, 1)) = 2
    /\ logLines = LogFile(logLines, 0) \o LogFile(logLines, 1)

\* The read endpoints C21 names, and the routes whose response carries
\* projects.
ReadRoutes ==
  {"/api/projects", "/api/projects/:id", "/api/skills", "/api/stats", "/api/storage",
   "/api/logs"}
ProjectRoutes == {"/api/projects", "/api/projects/:id", "/api/data/:key"}

\* The projects a response of p carries are projects of p's memory.
ServedFromMemory(r, p) ==
  \A i \in 1 .. Len(reqs'[r].body.data) :
    \E j \in 1 .. Len(portfolioData[p].projects) :
      reqs'[r].body.data[i] = JsonProject(portfolioData[p].projects[j])

C21_ReadsChangeNothing ==
  \A p \in Procs, r \in ReqIds, route \in ReadRoutes :
    GetStep(r, p, route) => portfolioData' = portfolioData /\ dataFile' = dataFile

C21_OnlyAddProjectMutates ==
  \A p \in Procs :
    up[p] /\ up'[p] /\ portfolioData'[p] # portfolioData[p] =>
      \E r \in ReqIds : PostStep(r, p)

C21_FileNotReadAgain ==
  \A p \in Procs, r \in ReqIds, route \in ProjectRoutes :
    GetStep(r, p, route) /\ reqs'[r].status = 200 => ServedFromMemory(r, p)

\* C21: after startup the in-memory document is changed only by addProject;
\* the GET endpoints for projects, one project, skills, stats, storage and
\* logs leave the in-memory document and the document file unchanged; and
\* the document file is not read again after load(), so that every project
\* a process serves is a project of its own memory, whatever another writer
\* has put in the file.
C21_LoadedOnce ==
  [][C21_ReadsChangeNothing /\ C21_OnlyAddProjectMutates /\ C21_FileNotReadAgain]_vars

\* The document file holds the projects and the skills of p's memory.
InSync(p) ==
  /\ dataFile.kind = "doc"
  /\ dataFile.doc.projects = JsonProjects(portfolioData[p].projects)
  /\ dataFile.doc.skills = portfolioData[p].skills

\* A step that runs save(document): the start of a process or addProject.
SaveStep ==
  \E p \in Procs :
    \/ StartStep(p)
    \/ \E r \in ReqIds : PostStep(r, p) /\ reqs'[r].route = "/api/projects"

\* C22: in a single process with a file system that does not fail, after
\* any sequence of API calls, POST /api/data/save with any key included, the
\* projects and skills of the document file equal those in memory; and the
\* document file is written by save(document) only, by no other endpoint.
C22_FileFollowsMemory ==
  /\ \A p \in Procs : up[p] => InSync(p)
  /\ [][/\ \A p \in Procs : up'[p] => InSync(p)'
        /\ dataFile' # dataFile => SaveStep]_vars

\* The endpoints C23 names.
DocumentRoutes == {"/api/projects", "/api/skills", "/api/stats"}

\* C23: whatever the document file holds at startup, memory after load()
\* holds a document with its projects and skills, so that GET /api/projects,
\* /api/skills and /api/stats answer 200 in every reachable state; and a
\* file that parses as JSON but is no document is treated like a parse
\* failure: memory and file then hold the default document.
C23_LoadYieldsDocument ==
  /\ \A p \in Procs : up[p] => IsDoc(portfolioData[p])
  /\ [][\A p \in Procs :
          /\ up'[p] => IsDoc(portfolioData'[p])
          /\ \A r \in ReqIds, route \in DocumentRoutes :
               GetStep(r, p, route) => reqs'[r].status = 200
          /\ StartStep(p) /\ dataFile.kind = "json" =>
               /\ portfolioData'[p].projects = DefaultData(now).projects
               /\ portfolioData'[p].skills = DefaultSkills
               /\ dataFile' = FileOf(portfolioData'[p])]_vars

\* A step in which process p answers request r to POST /api/projects.
AddStep(r, p) == PostStep(r, p) /\ reqs'[r].route = "/api/projects"

\* C24 as stated: whenever POST /api/projects answers 500, the in-memory
\* projects and the document file are exactly as before the call; a project
\* is in memory after the call only if the response was 201.
C24_FailureLeavesNoTrace ==
  [][\A p \in Procs, r \in ReqIds :
       AddStep(r, p) =>
         /\ reqs'[r].status = 500 =>
              /\ portfolioData'[p].projects = portfolioData[p].projects
              /\ dataFile' = dataFile
         /\ portfolioData'[p].projects # portfolioData[p].projects =>
              reqs'[r].status = 201]_vars

\* The projects of p after the step are those before it and one new record
\* made from the request of r.
Appended(r, p) ==
  /\ Len(portfolioData'[p].projects) = Len(portfolioData[p].projects) + 1
  /\ IsPrefix(portfolioData[p].projects, portfolioData'[p].projects)
  /\ LastOf(portfolioData'[p].projects).title = reqs'[r].input.title
  /\ LastOf(portfolioData'[p].projects).id = NewProjectId(portfolioData[p].projects)

\* C24: when POST /api/projects answers 500 because the id computation
\* failed, the in-memory document and the document file are exactly as
\* before the call; when it answers 500 after the append, because a log line
\* could not be written, the new record stays in memory and the document
\* file is as before the call, truncated, or holds the document with the new
\* record; the projects in memory change in the call exactly when the
\* response is 201 or such a 500.
C24_FailureAfterAppendStays ==
  [][\A p \in Procs, r \in ReqIds :
       AddStep(r, p) =>
         /\ reqs'[r].status \in {201, 500}
         /\ reqs'[r].status = 500 /\ ~IsDoc(portfolioData[p]) =>
              /\ portfolioData'[p] = portfolioData[p]
              /\ dataFile' = dataFile
         /\ reqs'[r].status = 500 /\ IsDoc(portfolioData[p]) =>
              /\ Appended(r, p)
              /\ dataFile' \in {dataFile, FileCorrupt, FileOf(portfolioData'[p])}
         /\ reqs'[r].status = 201 => Appended(r, p)]_vars

\* C24 witness: the only POST /api/projects a process has served in this
\* life was answered 500, and the project of that request is in memory.
C24_Witness ==
  \E p \in Procs, r \in ReqIds :
    /\ up[p] /\ reqs[r].st = "finished"
    /\ reqs[r].proc = p /\ reqs[r].life = starts[p]
    /\ reqs[r].method = "POST" /\ reqs[r].route = "/api/projects"
    /\ reqs[r].status = 500
    /\ \A q \in Entered(p) \ {r} : reqs[q].method # "POST"
    /\ LastOf(portfolioData[p].projects).title = reqs[r].input.title

====
